---------------------------- MODULE Spec2Model ----------------------------
(* The runtime of the generated JavaScript proxy class (the EJS template   *)
(* of the proxy: constructor, rebind, useHTTP/useWS, close, the listener   *)
(* operations and the generated method stubs), driven by a client that     *)
(* calls its operations in any order.  The tunnel (RpcTunnel) is observed  *)
(* at its boundary: last.sent holds the calls the last operation handed    *)
(* to the tunnel of instance last.this; where a history is needed, the     *)
(* tunnel's record of them is kept in traffic.  The compile-time side      *)
(* (the compiler entry point, the enum accessors, the namespace stubs) has *)
(* its own variables.                                                      *)
EXTENDS Integers, Sequences, FiniteSets, TLC

VARIABLES status, defaultTransport, listeners, ns, rpc, switched, last,
          tracing, traffic,
          service, reqs, enumType, accessor, emitted

\* the instances of the generated class
proxyVars == <<status, defaultTransport, listeners, ns, rpc, switched>>

\* the tunnels' record of the calls handed to them
trafficVars == <<tracing, traffic>>

\* the compile-time side
compileVars == <<service, reqs, enumType, accessor, emitted>>

vars == <<status, defaultTransport, listeners, ns, rpc, switched, last,
          tracing, traffic,
          service, reqs, enumType, accessor, emitted>>

----------------------------------------------------------------------------
(* Bounds of the model *)

\* longest argument list a stub is invoked with
MaxArgs == 3
\* most listeners registered for one event name
MaxListeners == 2
\* most close() calls on one instance
MaxClose == 3
\* most calls the tunnels' record keeps track of
MaxHanded == 3

----------------------------------------------------------------------------
(* JavaScript values *)

Str(s) == [t |-> "string", v |-> s]
Fun(s) == [t |-> "function", v |-> s]
Num(s) == [t |-> "number", v |-> s]
Undefined == [t |-> "undefined", v |-> "undefined"]
Null == [t |-> "null", v |-> "null"]

\* !x for the values the model uses
Falsy(x) == \/ x.t \in {"undefined", "null"}
            \/ x = Str("")
            \/ x = Num("0")

TypeOf(x) == IF x.t = "null" THEN "object" ELSE x.t

Min(a, b) == IF a < b THEN a ELSE b

Front(s) == SubSeq(s, 1, Len(s) - 1)

----------------------------------------------------------------------------
(* The service metadata the class was generated from *)

\* method names as their dot-separated segments
MethodNames == { <<"sum">>, <<"vray", "start">>, <<"a", "b", "m">> }

metadata ==
  [ methods |->
      [ m \in MethodNames |->
          CASE m = <<"sum">>           -> [params |-> <<"x", "y">>, returns |-> "int", async |-> FALSE]
            [] m = <<"vray", "start">> -> [params |-> <<>>, returns |-> "", async |-> TRUE]
            [] m = <<"a", "b", "m">>   -> [params |-> <<"x">>, returns |-> "", async |-> FALSE] ] ]

\* the namespace containers declared on the prototype: every proper,
\* non-empty prefix of a method name
Namespaces == UNION { { SubSeq(m, 1, k) : k \in 1..(Len(m) - 1) } : m \in MethodNames }

\* the instances a client may create
Instances == {"p1", "p2"}
EventNames == {"e1", "e2"}
ListenerFns == {"l1", "l2"}

NoInstance == "none"
\* receivers that are no proxy instance: a namespace container, or none
Container == "container"
NoReceiver == "undefined"

\* the values a client passes as positional arguments
ArgValues == {Str("a"), Str("b"), Fun("f")}
ArgLists == UNION { [1..k -> ArgValues] : k \in 0..MaxArgs }

\* the values a client passes as url and as sslSettings
UrlValues == {Undefined, Null, Str(""), Num("42"), Str("http://h1"), Str("http://h2")}
SslValues == {Undefined, Str("ssl")}

NoTunnel == [created |-> 0, url |-> Undefined, sslSettings |-> Undefined,
             handlers |-> 0, closeCalls |-> 0,
             released |-> FALSE, releases |-> 0]

NoOp == [op |-> "init", p |-> NoInstance, this |-> NoInstance,
         name |-> "", listener |-> "", before |-> 0,
         method |-> <<>>, recv |-> NoInstance, args |-> <<>>,
         url |-> Undefined, sslSettings |-> Undefined,
         sent |-> <<>>, ret |-> NoInstance, threw |-> "",
         data |-> Undefined, invoked |-> <<>>]

\* a tunnel's record before any call: the calls handed to it that are
\* not completed yet, each with the number of the stub invocation that
\* produced it (0 for a control call), and the counts so far
NoTraffic == [calls |-> <<>>, handed |-> 0, invocations |-> 0, failures |-> 0]

\* the compiler's requests
Requests == {"r1", "r2"}

\* the metadata of a service nothing is registered on: the names of its
\* methods and of its events, in the order of their registration
NoMetadata == [methods |-> <<>>, events |-> <<>>]

\* a request not made yet.  calledAt is the service's metadata when
\* getLanguageProxy was called, data what renderFile was given, rendered
\* whether renderFile was called, resolves and rejects the calls of the
\* promise's resolve and reject, output the text the promise delivered
NoData == [metadata |-> NoMetadata, localName |-> ""]

NoRequest == [pc |-> "idle", language |-> "", localName |-> Undefined,
              calledAt |-> NoMetadata, data |-> NoData, rendered |-> FALSE,
              resolves |-> 0, rejects |-> 0, output |-> <<>>]

\* no accessor generated yet
NoAccessor == [generated |-> FALSE, struct |-> <<>>, cases |-> <<>>,
               props |-> <<>>, frozen |-> FALSE]

\* nothing rendered yet
NoEmitted == [rendered |-> FALSE, metadata |-> NoMetadata, out |-> <<>>]

InitProxy ==
  /\ status = [p \in Instances |-> "none"]
  /\ defaultTransport = [p \in Instances |-> ""]
  /\ listeners = [p \in Instances |-> [e \in EventNames |-> <<>>]]
  /\ ns = [p \in Instances |-> {}]
  /\ rpc = [p \in Instances |-> NoTunnel]
  /\ switched = [p \in Instances |-> "none"]
  /\ last = NoOp
  /\ traffic = [p \in Instances |-> NoTraffic]

InitCompile ==
  /\ service = NoMetadata
  /\ reqs = [r \in Requests |-> NoRequest]
  /\ enumType = <<>>
  /\ accessor = NoAccessor
  /\ emitted = NoEmitted

Init == InitProxy /\ tracing = FALSE /\ InitCompile

\* the same, with the tunnels' record kept
InitTraced == InitProxy /\ tracing = TRUE /\ InitCompile

----------------------------------------------------------------------------
(* The tunnel, at its boundary *)

\* new RpcTunnel(url, sslSettings)
NewTunnel(old, url, sslSettings) ==
  [old EXCEPT !.created = @ + 1, !.url = url, !.sslSettings = sslSettings]

\* this.rpc.on('event', handler)
TunnelOn(t) == [t EXCEPT !.handlers = @ + 1]

\* this.rpc.call(call, callback), for each call of calls in turn; stub is
\* 1 when a stub invocation hands them and 0 otherwise
TunnelCall(t, calls, stub) ==
  [t EXCEPT !.calls = @ \o [i \in 1..Len(calls) |->
                              [id |-> IF stub = 1 THEN t.invocations + 1 ELSE 0,
                               call |-> calls[i]]],
            !.handed = @ + Len(calls),
            !.invocations = @ + stub]

\* what an operation that hands calls to the tunnel of instance this does
\* to the tunnels' record
Handed(this, calls, stub) ==
  /\ tracing' = tracing
  /\ IF tracing
       THEN /\ traffic[this].handed + Len(calls) <= MaxHanded
            /\ traffic[this].invocations + stub <= MaxHanded
            /\ traffic' = [traffic EXCEPT ![this] = TunnelCall(@, calls, stub)]
       ELSE traffic' = traffic

\* this.rpc.close(): the tunnel releases what it holds once
TunnelClose(t) ==
  [t EXCEPT !.closeCalls = @ + 1,
            !.released = TRUE,
            !.releases = IF t.released THEN @ ELSE @ + 1]

----------------------------------------------------------------------------
(* Constructor *)

\* the properties of the prototype object at a namespace path
FunctionProps(path) == { m \in MethodNames : Len(m) = Len(path) + 1 /\ Front(m) = path }
ObjectProps(path) == { c \in Namespaces : Len(c) = Len(path) + 1 /\ Front(c) = path }

\* prop.bind(self)
Bind(m, self) == [name |-> m, self |-> self]

\* a rebind that binds the functions of the container itself and copies
\* nested containers as they are
rebindShallow(obj, self) ==
  { Bind(m, self) : m \in FunctionProps(obj) }
    \cup { Bind(m, NoInstance) :
             m \in { n \in MethodNames : Len(n) > Len(obj) + 1
                                          /\ SubSeq(n, 1, Len(obj)) = obj } }

RECURSIVE rebind(_, _)
rebind(obj, self) ==
  { Bind(m, self) : m \in FunctionProps(obj) }
    \cup UNION { rebind(c, self) : c \in ObjectProps(obj) }

\* the url test without its typeof half
InvalidUrlFalsyOnly(url) == Falsy(url)

\* if (!url || typeof url !== 'string').  The guard before it,
\* (!this instanceof Class), is (false instanceof Class): never taken.
InvalidUrl(url) == Falsy(url) \/ TypeOf(url) # "string"

Construct(p, url, sslSettings) ==
  /\ status[p] = "none"
  /\ IF InvalidUrl(url)
       THEN /\ status' = [status EXCEPT ![p] = "failed"]
            /\ last' = [NoOp EXCEPT !.op = "new", !.p = p, !.url = url,
                                    !.sslSettings = sslSettings,
                                    !.threw = "Invalid proxy URL"]
            /\ UNCHANGED <<defaultTransport, listeners, ns, rpc, switched>>
            /\ UNCHANGED <<trafficVars, compileVars>>
       ELSE /\ status' = [status EXCEPT ![p] = "live"]
            /\ defaultTransport' = [defaultTransport EXCEPT ![p] = "http"]
            /\ rpc' = [rpc EXCEPT ![p] = TunnelOn(NewTunnel(@, url, sslSettings))]
            /\ ns' = [ns EXCEPT ![p] = UNION { rebind(c, p) : c \in ObjectProps(<<>>) }]
            /\ last' = [NoOp EXCEPT !.op = "new", !.p = p, !.url = url,
                                    !.sslSettings = sslSettings, !.ret = p]
            /\ UNCHANGED <<listeners, switched>>
            /\ UNCHANGED <<trafficVars, compileVars>>

----------------------------------------------------------------------------
(* Transport selection and close *)

useHTTP(p) ==
  /\ status[p] = "live"
  /\ defaultTransport' = [defaultTransport EXCEPT ![p] = "http"]
  /\ switched' = [switched EXCEPT ![p] = "http"]
  /\ last' = [NoOp EXCEPT !.op = "useHTTP", !.p = p, !.ret = p]
  /\ UNCHANGED <<status, listeners, ns, rpc>>
  /\ UNCHANGED <<trafficVars, compileVars>>

useWS(p) ==
  /\ status[p] = "live"
  /\ defaultTransport' = [defaultTransport EXCEPT ![p] = "ws"]
  /\ switched' = [switched EXCEPT ![p] = "ws"]
  /\ last' = [NoOp EXCEPT !.op = "useWS", !.p = p, !.ret = p]
  /\ UNCHANGED <<status, listeners, ns, rpc>>
  /\ UNCHANGED <<trafficVars, compileVars>>

\* a close() that never reaches the tunnel
closeLocalOnly(p) ==
  /\ status[p] = "live"
  /\ rpc[p].closeCalls < MaxClose
  /\ rpc' = [rpc EXCEPT ![p].closeCalls = @ + 1]
  /\ last' = [NoOp EXCEPT !.op = "close", !.p = p,
                          !.before = rpc[p].releases]
  /\ UNCHANGED <<status, defaultTransport, listeners, ns, switched>>
  /\ UNCHANGED <<trafficVars, compileVars>>

close(p) ==
  /\ status[p] = "live"
  /\ rpc[p].closeCalls < MaxClose
  /\ rpc' = [rpc EXCEPT ![p] = TunnelClose(@)]
  /\ last' = [NoOp EXCEPT !.op = "close", !.p = p,
                          !.before = rpc[p].releases]
  /\ UNCHANGED <<status, defaultTransport, listeners, ns, switched>>
  /\ UNCHANGED <<trafficVars, compileVars>>

----------------------------------------------------------------------------
(* Listener operations *)

\* a control call over the request/response channel
ControlCallHttp(method, type) ==
  [method |-> method, params |-> <<Str(type)>>, expectReturn |-> "undefined",
   transport |-> "http", callback |-> Undefined]

\* the control call of on/removeListener/removeAllListeners: an object
\* with method, params and transport only, and no callback
ControlCall(method, type) ==
  [method |-> method, params |-> <<Str(type)>>, expectReturn |-> "undefined",
   transport |-> "ws", callback |-> Undefined]

\* EventEmitter.prototype.addListener: appends, duplicates allowed
EmitterAdd(ls, l) == Append(ls, l)

\* EventEmitter.prototype.removeListener: removes the most recently added
\* occurrence of l, if any
EmitterRemove(ls, l) ==
  IF \E i \in 1..Len(ls) : ls[i] = l
    THEN LET i == CHOOSE i \in 1..Len(ls) :
                    ls[i] = l /\ \A j \in (i + 1)..Len(ls) : ls[j] # l
         IN SubSeq(ls, 1, i - 1) \o SubSeq(ls, i + 1, Len(ls))
    ELSE ls

\* EventEmitter.prototype.removeAllListeners(type)
EmitterRemoveAll(ls) == <<>>

\* an on() that subscribes on every call
onCallsAlways(before, type) == <<ControlCall(<<"rpc", "on">>, type)>>

\* the calls on() hands to the tunnel, given the listeners of type before
onCalls(before, type) ==
  IF Len(before) = 0 THEN <<ControlCall(<<"rpc", "on">>, type)>> ELSE <<>>

\* a removeListener() that never unsubscribes
removeListenerCallsNever(after, type) == <<>>

\* a removeListener() that unsubscribes one listener early
removeListenerCallsEarly(after, type) ==
  IF Len(after) <= 1 THEN <<ControlCall(<<"rpc", "off">>, type)>> ELSE <<>>

\* the calls removeListener() hands to the tunnel, given the listeners of
\* type after the removal
removeListenerCalls(after, type) ==
  IF Len(after) = 0 THEN <<ControlCall(<<"rpc", "off">>, type)>> ELSE <<>>

\* a removeAllListeners() that unsubscribes only a subscribed name
removeAllListenersCallsIfAny(before, type) ==
  IF Len(before) = 0 THEN <<>> ELSE <<ControlCall(<<"rpc", "off">>, type)>>

\* the calls removeAllListeners() hands to the tunnel: one, whatever the
\* listeners of type before
removeAllListenersCalls(before, type) == <<ControlCall(<<"rpc", "off">>, type)>>

on(p, type, listener) ==
  /\ status[p] = "live"
  /\ Len(listeners[p][type]) < MaxListeners
  /\ LET sent == onCalls(listeners[p][type], type) IN
       /\ listeners' = [listeners EXCEPT ![p][type] = EmitterAdd(@, listener)]
       /\ last' = [NoOp EXCEPT !.op = "on", !.p = p, !.this = p, !.name = type,
                               !.listener = listener,
                               !.before = Len(listeners[p][type]),
                               !.sent = sent]
       /\ Handed(p, sent, 0)
  /\ UNCHANGED <<status, defaultTransport, ns, rpc, switched>>
  /\ UNCHANGED compileVars

removeListener(p, type, listener) ==
  /\ status[p] = "live"
  /\ LET after == EmitterRemove(listeners[p][type], listener)
         sent == removeListenerCalls(after, type) IN
       /\ listeners' = [listeners EXCEPT ![p][type] = after]
       /\ last' = [NoOp EXCEPT !.op = "removeListener", !.p = p, !.this = p,
                               !.name = type, !.listener = listener,
                               !.before = Len(listeners[p][type]),
                               !.sent = sent]
       /\ Handed(p, sent, 0)
  /\ UNCHANGED <<status, defaultTransport, ns, rpc, switched>>
  /\ UNCHANGED compileVars

removeAllListeners(p, type) ==
  /\ status[p] = "live"
  /\ LET sent == removeAllListenersCalls(listeners[p][type], type) IN
       /\ listeners' = [listeners EXCEPT ![p][type] = EmitterRemoveAll(@)]
       /\ last' = [NoOp EXCEPT !.op = "removeAllListeners", !.p = p, !.this = p,
                               !.name = type,
                               !.before = Len(listeners[p][type]),
                               !.sent = sent]
       /\ Handed(p, sent, 0)
  /\ UNCHANGED <<status, defaultTransport, ns, rpc, switched>>
  /\ UNCHANGED compileVars

----------------------------------------------------------------------------
(* Inbound notifications *)

\* the payloads of the notifications a tunnel delivers
EventData == {Undefined, Str("d1")}

\* EventEmitter.prototype.emit: every registered listener, in the order of
\* registration, with the arguments given
EmitterEmit(ls, args) == [i \in 1..Len(ls) |-> [fn |-> Fun(ls[i]), args |-> args]]

\* a handler that re-emits the name without the data
EventHandlerNoData(p, e) == EmitterEmit(listeners[p][e.name], <<>>)

\* function(e) { self.emit(e.name, e.data); }
EventHandler(p, e) == EmitterEmit(listeners[p][e.name], <<e.data>>)

RECURSIVE Repeat(_, _)
Repeat(n, s) == IF n = 0 THEN <<>> ELSE s \o Repeat(n - 1, s)

\* a delivery that drops the listeners it has called and unsubscribes
\* the name, as for listeners registered for one notification only
TunnelEventOnce(p, e) ==
  /\ status[p] = "live"
  /\ LET sent == IF Len(listeners[p][e.name]) = 0 THEN <<>>
                 ELSE <<ControlCall(<<"rpc", "off">>, e.name)>> IN
       /\ last' = [NoOp EXCEPT !.op = "event", !.p = p, !.this = p,
                               !.name = e.name, !.data = e.data,
                               !.before = Len(listeners[p][e.name]),
                               !.sent = sent,
                               !.invoked = Repeat(rpc[p].handlers, EventHandler(p, e))]
       /\ Handed(p, sent, 0)
  /\ listeners' = [listeners EXCEPT ![p][e.name] = <<>>]
  /\ UNCHANGED <<status, defaultTransport, ns, rpc, switched>>
  /\ UNCHANGED compileVars

\* the tunnel of instance p emits 'event' with e: every handler
\* registered on the tunnel runs
TunnelEvent(p, e) ==
  /\ status[p] = "live"
  /\ last' = [NoOp EXCEPT !.op = "event", !.p = p, !.this = p,
                          !.name = e.name, !.data = e.data,
                          !.before = Len(listeners[p][e.name]),
                          !.invoked = Repeat(rpc[p].handlers, EventHandler(p, e))]
  /\ UNCHANGED <<status, defaultTransport, listeners, ns, rpc, switched>>
  /\ UNCHANGED <<trafficVars, compileVars>>

----------------------------------------------------------------------------
(* Generated method stubs *)

\* a lookup that finds the containers of the prototype rebound once, for
\* one instance, and shared by all
LookupShared(p, method) ==
  IF Len(method) = 1
    THEN [name |-> method, self |-> NoInstance]
    ELSE [name |-> method,
          self |-> CHOOSE q \in Instances : status[q] = "live"]

\* the function object the property path p.<method> evaluates to: a
\* root method is the prototype's function, a namespaced one is what the
\* constructor's rebind left in the instance's own container
Lookup(p, method) ==
  IF Len(method) = 1
    THEN [name |-> method, self |-> NoInstance]
    ELSE CHOOSE f \in ns[p] : f.name = method

\* the receiver the function body runs with: a bound function ignores
\* the receiver of the invocation
Receiver(fn, recv) == IF fn.self # NoInstance THEN fn.self ELSE recv

\* a callback test that looks at the first argument
HasCallbackFirst(args) == Len(args) # 0 /\ TypeOf(args[1]) = "function"

\* if (args.length && typeof args[args.length - 1] === 'function')
HasCallback(args) == Len(args) # 0 /\ TypeOf(args[Len(args)]) = "function"

StubCallback(args) == IF HasCallback(args) THEN args[Len(args)] ELSE Null

\* args after the pop
StubPositional(args) == IF HasCallback(args) THEN Front(args) ELSE args

\* params without the truncation
StubParamsAll(method, args) == StubPositional(args)

\* args.length = Math.min(n, args.length), or args.length = 0 when the
\* method declares no parameter
StubParams(method, args) ==
  LET n == Len(metadata.methods[method].params)
      positional == StubPositional(args)
  IN IF n > 0 THEN SubSeq(positional, 1, Min(n, Len(positional)))
              ELSE SubSeq(positional, 1, 0)

\* an expectReturn that looks at the return type only
StubExpectReturnType(method) ==
  IF metadata.methods[method].returns # "" THEN "true" ELSE "false"

\* expectReturn: !!returns || !!async
StubExpectReturn(method) ==
  IF metadata.methods[method].returns # "" \/ metadata.methods[method].async
    THEN "true" ELSE "false"

\* a stub that hands over only the calls that expect a return
StubCallsIfReturn(method, this, args) ==
  IF StubExpectReturn(method) = "true"
    THEN <<[method |-> method, params |-> StubParams(method, args),
            expectReturn |-> "true",
            transport |-> defaultTransport[this],
            callback |-> StubCallback(args)]>>
    ELSE <<>>

\* a stub with the transport written into it
StubTransportHttp(this) == "http"

\* transport: this.defaultTransport
StubTransport(this) == defaultTransport[this]

StubCall(method, this, args) ==
  [method |-> method, params |-> StubParams(method, args),
   expectReturn |-> StubExpectReturn(method),
   transport |-> StubTransport(this), callback |-> StubCallback(args)]

\* a stub that hands nothing to a tunnel that reported a failure
StubCallsUnlessFailed(method, this, args) ==
  IF traffic[this].failures > 0 THEN <<>> ELSE <<StubCall(method, this, args)>>

\* the calls one invocation hands to the tunnel: one, before it returns
StubCalls(method, this, args) == <<StubCall(method, this, args)>>

\* the function taken from instance p at the path method, invoked on
\* receiver recv with args
Stub(p, method, recv, args) ==
  /\ status[p] = "live"
  /\ LET this == Receiver(Lookup(p, method), recv) IN
       IF this \in Instances /\ status[this] = "live"
         THEN LET sent == StubCalls(method, this, args) IN
                /\ last' = [NoOp EXCEPT !.op = "stub", !.p = p, !.this = this,
                                        !.method = method, !.recv = recv,
                                        !.args = args, !.sent = sent]
                /\ Handed(this, sent, 1)
         ELSE \* this.rpc is undefined
              /\ last' = [NoOp EXCEPT !.op = "stub", !.p = p, !.this = this,
                                      !.method = method, !.recv = recv,
                                      !.args = args, !.threw = "TypeError"]
              /\ UNCHANGED trafficVars
  /\ UNCHANGED <<status, defaultTransport, listeners, ns, rpc, switched>>
  /\ UNCHANGED compileVars

----------------------------------------------------------------------------
(* Completion of calls, by the tunnel *)

\* what the tunnel passes to the callback of a call that failed, and of
\* one that succeeded
FailureArgs == <<Str("error")>>
ResultArgs == <<Null, Str("result")>>

Without(seq, i) == SubSeq(seq, 1, i - 1) \o SubSeq(seq, i + 1, Len(seq))

\* the tunnel completes the i-th call in flight on instance p, with a
\* failure or with a result: the outcome goes to the callback of that
\* call, if it has one
TunnelComplete(p, i, outcome) ==
  /\ tracing
  /\ status[p] = "live"
  /\ i \in 1..Len(traffic[p].calls)
  /\ LET call == traffic[p].calls[i].call IN
       /\ traffic' = [traffic EXCEPT
                        ![p].calls = Without(@, i),
                        ![p].failures = IF outcome = "failure" THEN @ + 1 ELSE @]
       /\ last' = [NoOp EXCEPT
                     !.op = "complete", !.p = p, !.this = p,
                     !.name = outcome, !.method = call.method,
                     !.data = call.callback,
                     !.invoked = IF TypeOf(call.callback) = "function"
                                   THEN <<[fn |-> call.callback,
                                           args |-> IF outcome = "failure"
                                                      THEN FailureArgs
                                                      ELSE ResultArgs]>>
                                   ELSE <<>>]
  /\ UNCHANGED <<status, defaultTransport, listeners, ns, rpc, switched>>
  /\ UNCHANGED <<tracing, compileVars>>

----------------------------------------------------------------------------
(* The service a proxy is generated for *)

\* most methods and most events registered on the service
MaxMethods == 3
MaxEvents == 2

\* names as their dot-separated segments
ServiceMethodNames ==
  { <<"sum">>, <<"a", "m">>, <<"a", "b", "m">>, <<"a", "b", "c", "m">>,
    <<"d", "e", "m">> }
ServiceEventNames == { <<"e1">>, <<"a", "ev">>, <<"x", "y", "ev">> }

Range(s) == { s[i] : i \in 1..Len(s) }

\* the service registers a method: a new key of metadata.methods
RegisterMethod(name) ==
  /\ name \notin Range(service.methods)
  /\ Len(service.methods) < MaxMethods
  /\ service' = [service EXCEPT !.methods = Append(@, name)]
  /\ UNCHANGED <<proxyVars, last, trafficVars, reqs, enumType, accessor, emitted>>

\* the service registers an event: a new key of metadata.events
RegisterEvent(name) ==
  /\ name \notin Range(service.events)
  /\ Len(service.events) < MaxEvents
  /\ service' = [service EXCEPT !.events = Append(@, name)]
  /\ UNCHANGED <<proxyVars, last, trafficVars, reqs, enumType, accessor, emitted>>

----------------------------------------------------------------------------
(* The template: namespace stubs *)

\* name.lastIndexOf('.') == -1
NoDot(name) == Len(name) = 1

\* name.substr(0, name.lastIndexOf('.'))
UpToLastDot(name) == Front(name)

\* the loop that collects the namespaces: one per name with a dot, unless
\* it was collected before
RECURSIVE CollectNamespaces(_, _)
CollectNamespaces(names, collected) ==
  IF names = <<>> THEN collected
  ELSE LET methodName == Head(names)
           namespace == UpToLastDot(methodName)
       IN  CollectNamespaces(Tail(names),
             IF NoDot(methodName) \/ namespace \in Range(collected)
               THEN collected
               ELSE Append(collected, namespace))

\* a collection that also walks the events' names
namespacesOfMethodsAndEvents(md) ==
  CollectNamespaces(md.methods \o md.events, <<>>)

\* var namespaces: collected from Object.keys(metadata.methods)
namespaces(md) == CollectNamespaces(md.methods, <<>>)

\* var stubs = {}, and nothing emitted
NoStubs == [stubs |-> {}, out |-> <<>>]

\* a stubNamespace that emits the container before its parent's
RECURSIVE stubNamespaceChildFirst(_, _)
stubNamespaceChildFirst(nsp, st) ==
  LET own == IF nsp \in st.stubs THEN st
             ELSE [stubs |-> st.stubs \cup {nsp}, out |-> Append(st.out, nsp)]
  IN  IF ~NoDot(nsp) THEN stubNamespaceChildFirst(UpToLastDot(nsp), own)
      ELSE own

\* stubNamespace(ns): the parent first, then ns unless stubs[ns]
RECURSIVE stubNamespace(_, _)
stubNamespace(nsp, st) ==
  LET up == IF ~NoDot(nsp) THEN stubNamespace(UpToLastDot(nsp), st) ELSE st
  IN  IF nsp \in up.stubs THEN up
      ELSE [stubs |-> up.stubs \cup {nsp}, out |-> Append(up.out, nsp)]

\* namespaces.forEach(stubNamespace)
RECURSIVE ForEachStubNamespace(_, _)
ForEachStubNamespace(nss, st) ==
  IF nss = <<>> THEN st
  ELSE ForEachStubNamespace(Tail(nss), stubNamespace(Head(nss), st))

\* the containers the template emits, in the order it emits them
NamespaceStubs(md) == ForEachStubNamespace(namespaces(md), NoStubs).out

\* the template is rendered for the service's metadata
RenderNamespaces ==
  /\ emitted' = [rendered |-> TRUE, metadata |-> service,
                 out |-> NamespaceStubs(service)]
  /\ UNCHANGED <<proxyVars, last, trafficVars, service, reqs, enumType, accessor>>

\* the text rendered from the data renderFile is given, as its lines: the
\* class, the namespace stubs, the method stubs
Render(data) ==
  <<[line |-> "class", name |-> <<data.localName>>]>>
  \o [i \in 1..Len(NamespaceStubs(data.metadata)) |->
        [line |-> "namespace", name |-> NamespaceStubs(data.metadata)[i]]]
  \o [i \in 1..Len(data.metadata.methods) |->
        [line |-> "method", name |-> data.metadata.methods[i]]]

----------------------------------------------------------------------------
(* The compiler entry point *)

\* the languages a template exists for under proxies/
Templates == {"JavaScript"}
Languages == {"JavaScript", "Cobol"}
LocalNames == {Undefined, Str("Api")}

\* getLanguageProxy(options), up to the call of fs.stat
getLanguageProxy(r, language, localName) ==
  /\ reqs[r].pc = "idle"
  /\ reqs' = [reqs EXCEPT ![r] =
                [@ EXCEPT !.pc = "stat", !.language = language,
                          !.localName = localName, !.calledAt = service]]
  /\ UNCHANGED <<proxyVars, last, trafficVars, service, enumType, accessor, emitted>>

\* a callback of fs.stat that goes on after reject(err)
StatCallbackNoReturn(q, md) ==
  [q EXCEPT !.pc = "render", !.rendered = TRUE,
            !.rejects = IF q.language \notin Templates THEN @ + 1 ELSE @,
            !.data = [metadata |-> md,
                      localName |-> IF Falsy(q.localName) THEN "Proxy"
                                    ELSE q.localName.v]]

\* the callback of fs.stat: reject(err) and return, or renderFile with
\* the metadata the service has now
StatCallback(q, md) ==
  IF q.language \notin Templates
    THEN [q EXCEPT !.pc = "settled", !.rejects = @ + 1]
    ELSE [q EXCEPT !.pc = "render", !.rendered = TRUE,
                   !.data = [metadata |-> md,
                             localName |-> IF Falsy(q.localName) THEN "Proxy"
                                           ELSE q.localName.v]]

StatDone(r) ==
  /\ reqs[r].pc = "stat"
  /\ reqs' = [reqs EXCEPT ![r] = StatCallback(@, service)]
  /\ UNCHANGED <<proxyVars, last, trafficVars, service, enumType, accessor, emitted>>

\* the callback of ejs.renderFile: reject(err) or resolve(html).  The
\* promise takes the first settlement only.
RenderCallback(q, err) ==
  IF err
    THEN [q EXCEPT !.pc = "settled", !.rejects = @ + 1]
    ELSE [q EXCEPT !.pc = "settled", !.resolves = @ + 1,
                   !.output = IF q.resolves + q.rejects = 0
                              THEN Render(q.data) ELSE @]

RenderDone(r, err) ==
  /\ reqs[r].pc = "render"
  /\ reqs' = [reqs EXCEPT ![r] = RenderCallback(@, err)]
  /\ UNCHANGED <<proxyVars, last, trafficVars, service, enumType, accessor, emitted>>

----------------------------------------------------------------------------
(* The template: enum accessors *)

\* most labels of the enum
MaxLabels == 2

\* the labels and the values an enum is registered with
EnumLabels == {"A", "B", "name"}
EnumValues == {Num("0"), Num("1"), Num("2")}

\* the own properties of a function created by function (val) {...}: its
\* name and its length, neither writable
FunctionOwnProps == [name |-> Str(""), length |-> Num("1")]
NonWritable == {"name", "length"}

\* the service registers a label of the enum: a new key of type.struct,
\* with a value no other label has
DefineLabel(key, value) ==
  /\ Len(enumType) < MaxLabels
  /\ \A i \in 1..Len(enumType) :
       enumType[i].key # key /\ enumType[i].value # value
  /\ enumType' = Append(enumType, [key |-> key, value |-> value])
  /\ UNCHANGED <<proxyVars, last, trafficVars, service, reqs, accessor, emitted>>

\* the switch of the accessor: case "key": return value, for every key,
\* then case value: return "key"
SwitchCases(struct) ==
  [i \in 1..Len(struct) |->
     [match |-> Str(struct[i].key), ret |-> struct[i].value]]
  \o [i \in 1..Len(struct) |->
        [match |-> struct[i].value, ret |-> Str(struct[i].key)]]

\* switch (val): the first case that is === val returns
Switch(cases, val) ==
  IF \E i \in 1..Len(cases) : cases[i].match = val
    THEN cases[CHOOSE i \in 1..Len(cases) :
                 /\ cases[i].match = val
                 /\ \A j \in 1..(i - 1) : cases[j].match # val].ret
    ELSE Undefined

\* obj.key
Get(obj, key) ==
  IF key \in DOMAIN obj.props THEN obj.props[key] ELSE Undefined

\* obj.key = v in sloppy mode: without effect on a frozen object and on
\* a property that is not writable
Put(obj, key, v) ==
  IF obj.frozen \/ (key \in DOMAIN obj.props /\ key \in NonWritable)
    THEN obj
    ELSE [obj EXCEPT !.props =
            [k \in (DOMAIN obj.props) \cup {key} |->
               IF k = key THEN v ELSE obj.props[k]]]

\* localName.type.key = value, for every key in turn
RECURSIVE AssignLabels(_, _)
AssignLabels(obj, struct) ==
  IF struct = <<>> THEN obj
  ELSE AssignLabels(Put(obj, Head(struct).key, Head(struct).value),
                    Tail(struct))

\* the accessor of an enum: the function, its properties, Object.freeze
generateTypes ==
  /\ enumType # <<>>
  /\ accessor' =
       [AssignLabels([generated |-> TRUE, struct |-> enumType,
                      cases |-> SwitchCases(enumType),
                      props |-> FunctionOwnProps, frozen |-> FALSE],
                     enumType)
          EXCEPT !.frozen = TRUE]
  /\ UNCHANGED <<proxyVars, last, trafficVars, service, reqs, enumType, emitted>>

\* the values a caller passes to the accessor
AccessorArgs == { Str(k) : k \in EnumLabels } \cup EnumValues \cup {Undefined}

\* a caller calls the accessor
AccessorCall(val) ==
  /\ accessor.generated
  /\ last' = [NoOp EXCEPT !.op = "accessor", !.args = <<val>>,
                          !.data = Switch(accessor.cases, val)]
  /\ UNCHANGED <<proxyVars, trafficVars, compileVars>>

\* a caller assigns a property of the accessor
AccessorAssign(key, v) ==
  /\ accessor.generated
  /\ accessor' = Put(accessor, key, v)
  /\ last' = [NoOp EXCEPT !.op = "assign", !.name = key, !.data = v]
  /\ UNCHANGED <<proxyVars, trafficVars, service, reqs, enumType, emitted>>

----------------------------------------------------------------------------
(* Clients *)

\* a well-formed constructor call
GoodUrl == Str("http://h1")

\* stub arguments of at most one element
ShortArgLists == { a \in ArgLists : Len(a) <= 1 }

\* a client driving one instance through every operation
Next ==
  \E p \in {"p1"} :
    \/ \E url \in UrlValues, sslSettings \in SslValues : Construct(p, url, sslSettings)
    \/ useHTTP(p)
    \/ useWS(p)
    \/ close(p)
    \/ \E type \in EventNames, l \in ListenerFns : on(p, type, l)
    \/ \E type \in EventNames, l \in ListenerFns : removeListener(p, type, l)
    \/ \E type \in EventNames : removeAllListeners(p, type)
    \/ \E m \in MethodNames, args \in ShortArgLists : Stub(p, m, p, args)

Spec == Init /\ [][Next]_vars

\* a client that adds and removes listeners and switches transports
NextListeners ==
  \E p \in {"p1"} :
    \/ Construct(p, GoodUrl, Undefined)
    \/ useHTTP(p)
    \/ useWS(p)
    \/ \E type \in EventNames, l \in ListenerFns : on(p, type, l)
    \/ \E type \in EventNames, l \in ListenerFns : removeListener(p, type, l)
    \/ \E type \in EventNames : removeAllListeners(p, type)

SpecListeners == Init /\ [][NextListeners]_vars

\* a client that invokes the method stubs and switches transports
NextStub ==
  \E p \in {"p1"} :
    \/ Construct(p, GoodUrl, Undefined)
    \/ useHTTP(p)
    \/ useWS(p)
    \/ \E m \in MethodNames, recv \in {p, Container, NoReceiver}, args \in ArgLists :
         Stub(p, m, recv, args)

SpecStub == Init /\ [][NextStub]_vars

\* two instances; a function taken from one is invoked on any receiver
NextDetach ==
  \E p \in Instances :
    \/ Construct(p, GoodUrl, Undefined)
    \/ useHTTP(p)
    \/ useWS(p)
    \/ \E m \in MethodNames, recv \in Instances \cup {Container, NoReceiver},
          args \in ShortArgLists :
         Stub(p, m, recv, args)

SpecDetach == Init /\ [][NextDetach]_vars

\* a client that adds and removes listeners while the tunnel delivers
\* notifications
NextEvents ==
  \E p \in {"p1"} :
    \/ Construct(p, GoodUrl, Undefined)
    \/ \E type \in EventNames, l \in ListenerFns : on(p, type, l)
    \/ \E type \in EventNames, l \in ListenerFns : removeListener(p, type, l)
    \/ \E type \in EventNames : removeAllListeners(p, type)
    \/ \E name \in EventNames, data \in EventData :
         TunnelEvent(p, [name |-> name, data |-> data])

SpecEvents == Init /\ [][NextEvents]_vars

\* stub arguments: none, or a callback alone
TinyArgLists == { a \in ShortArgLists : \A i \in 1..Len(a) : a[i].t = "function" }

\* a client that invokes stubs and switches transports, the tunnel keeping
\* the record of what it is handed
NextOrder ==
  \E p \in {"p1"} :
    \/ Construct(p, GoodUrl, Undefined)
    \/ useHTTP(p)
    \/ useWS(p)
    \/ \E m \in MethodNames, args \in TinyArgLists : Stub(p, m, p, args)

SpecOrder == InitTraced /\ [][NextOrder]_vars

\* the same client, with a tunnel that completes the calls in flight in
\* any order, with a failure or a result
NextFailures ==
  \E p \in {"p1"} :
    \/ Construct(p, GoodUrl, Undefined)
    \/ useHTTP(p)
    \/ useWS(p)
    \/ \E type \in {"e1"}, l \in {"l1"} : on(p, type, l)
    \/ \E m \in {<<"sum">>, <<"vray", "start">>}, args \in TinyArgLists :
         Stub(p, m, p, args)
    \/ \E i \in 1..MaxHanded, outcome \in {"failure", "result"} :
         TunnelComplete(p, i, outcome)

SpecFailures == InitTraced /\ [][NextFailures]_vars

\* callers of the compiler, with a service that registers methods
\* meanwhile
CompileMethodNames == { <<"sum">>, <<"a", "m">> }

NextCompile ==
  \/ \E r \in Requests, language \in Languages, localName \in LocalNames :
       getLanguageProxy(r, language, localName)
  \/ \E r \in Requests : StatDone(r)
  \/ \E r \in Requests, err \in BOOLEAN : RenderDone(r, err)
  \/ \E name \in CompileMethodNames : RegisterMethod(name)

SpecCompile == Init /\ [][NextCompile]_vars


\* the service registers an enum, the template is rendered for it, and
\* callers use the accessor
NextEnum ==
  \/ \E key \in EnumLabels, value \in EnumValues : DefineLabel(key, value)
  \/ generateTypes
  \/ \E val \in AccessorArgs : AccessorCall(val)
  \/ \E key \in EnumLabels, v \in EnumValues : AccessorAssign(key, v)

SpecEnum == Init /\ [][NextEnum]_vars


\* a service that registers methods and events in any order, and the
\* template rendered for it
NextNamespaces ==
  \/ \E name \in ServiceMethodNames : RegisterMethod(name)
  \/ \E name \in ServiceEventNames : RegisterEvent(name)
  \/ RenderNamespaces

SpecNamespaces == Init /\ [][NextNamespaces]_vars


\* a client of the listener operations, with the tunnel's record kept
NextSubscriptions ==
  \E p \in {"p1"} :
    \/ Construct(p, GoodUrl, Undefined)
    \/ \E type \in EventNames, l \in ListenerFns : on(p, type, l)
    \/ \E type \in EventNames, l \in ListenerFns : removeListener(p, type, l)
    \/ \E type \in EventNames : removeAllListeners(p, type)

SpecSubscriptions == InitTraced /\ [][NextSubscriptions]_vars


\* two instances of one generated class, each driven through every
\* operation: a root method is invoked on the instance, a namespaced one
\* on the container it is reached through
NextIsolation ==
  \E p \in Instances :
    \/ \E url \in {Str("http://h1"), Str("http://h2")} : Construct(p, url, Undefined)
    \/ useHTTP(p)
    \/ useWS(p)
    \/ close(p)
    \/ on(p, "e1", "l1")
    \/ removeListener(p, "e1", "l1")
    \/ removeAllListeners(p, "e1")
    \/ Stub(p, <<"sum">>, p, <<>>)
    \/ Stub(p, <<"a", "b", "m">>, Container, <<>>)
    \/ TunnelEvent(p, [name |-> "e1", data |-> Undefined])

SpecIsolation == Init /\ [][NextIsolation]_vars


\* a client that switches to the persistent channel, adds and removes
\* listeners and calls a method, while the tunnel completes calls and delivers
\* notifications in between
NextNotifications ==
  \E p \in {"p1"} :
    \/ Construct(p, GoodUrl, Undefined)
    \/ useWS(p)
    \/ \E type \in EventNames : on(p, type, "l1")
    \/ \E type \in EventNames : removeListener(p, type, "l1")
    \/ \E type \in EventNames : removeAllListeners(p, type)
    \/ Stub(p, <<"sum">>, p, <<Fun("f")>>)
    \/ \E i \in 1..MaxHanded : TunnelComplete(p, i, "result")
    \/ \E name \in EventNames, data \in EventData :
         TunnelEvent(p, [name |-> name, data |-> data])

SpecNotifications == InitTraced /\ [][NextNotifications]_vars


----------------------------------------------------------------------------
(* Properties *)

\* the default transport an instance must have, from the switches made on
\* it since construction
Selected(p) == IF switched[p] = "none" THEN "http" ELSE switched[p]

\* s holds exactly one control call of the given method for the event name
OneControl(s, method, type) ==
  /\ Len(s) = 1
  /\ s[1].method = method
  /\ s[1].params = <<[t |-> "string", v |-> type]>>

Registered(p, type, l) ==
  \E i \in 1..Len(listeners[p][type]) : listeners[p][type][i] = l

\* C1: on/addListener(name, l) sends exactly one rpc.on call with params
\* [name] when name had no listener before the call and no call when it
\* had one or more; either way l is registered for name afterwards.
C1_OnSubscribesFirst ==
  last.op = "on" =>
    /\ last.before = 0 => OneControl(last.sent, <<"rpc", "on">>, last.name)
    /\ last.before > 0 => last.sent = <<>>
    /\ Registered(last.p, last.name, last.listener)
    /\ Len(listeners[last.p][last.name]) = last.before + 1

\* on() for a name that already has a listener: nothing is sent
C1_Witness ==
  /\ last.op = "on"
  /\ last.before = 1
  /\ last.sent = <<>>
  /\ Registered(last.p, last.name, last.listener)

\* C2 as stated: removeListener(name, l) sends rpc.off if and only if the
\* call takes the listener count of name from one to zero, and sends
\* nothing in every other case, a name without listeners included.
C2_OffOnlyOnLastRemoved ==
  last.op = "removeListener" =>
    IF last.before = 1 /\ Len(listeners[last.p][last.name]) = 0
      THEN OneControl(last.sent, <<"rpc", "off">>, last.name)
      ELSE last.sent = <<>>

\* C2 amended: removeListener(name, l) sends exactly one rpc.off call with
\* params [name] if and only if name has no listener after the call, which
\* is when the call removed the last one or when name had none before it;
\* while a listener remains nothing is sent.
C2_OffWhenNoneLeft ==
  last.op = "removeListener" =>
    LET left == Len(listeners[last.p][last.name]) IN
      /\ left = 0 => OneControl(last.sent, <<"rpc", "off">>, last.name)
      /\ left > 0 => last.sent = <<>>
      /\ last.before = 0 => left = 0
      /\ left \in {last.before, last.before - 1}

\* removeListener() for a name without listeners: rpc.off is sent
C2_Witness ==
  /\ last.op = "removeListener"
  /\ last.before = 0
  /\ OneControl(last.sent, <<"rpc", "off">>, last.name)

\* C3: removeAllListeners(name) sends exactly one rpc.off call with params
\* [name] on every invocation, whatever the number of listeners of name
\* before it, and leaves name without listeners.
C3_RemoveAllAlwaysOff ==
  last.op = "removeAllListeners" =>
    /\ OneControl(last.sent, <<"rpc", "off">>, last.name)
    /\ listeners[last.p][last.name] = <<>>

\* removeAllListeners() for a name without listeners
C3_Witness ==
  /\ last.op = "removeAllListeners"
  /\ last.before = 0
  /\ Len(last.sent) = 1

\* C4: every control call of a listener operation carries the transport
\* 'ws', whatever the default transport, and the default transport is
\* the one the switches selected: no listener operation changes it.
C4_ControlCallsOverWs ==
  /\ \A p \in Instances : status[p] = "live" => defaultTransport[p] = Selected(p)
  /\ last.op \in {"on", "removeListener", "removeAllListeners"} =>
       \A i \in 1..Len(last.sent) : last.sent[i].transport = "ws"

\* a subscribe sent while the default transport was switched back to http
C4_Witness ==
  /\ last.op = "on"
  /\ Len(last.sent) = 1
  /\ switched[last.p] = "http"
  /\ defaultTransport[last.p] = "http"
  /\ \E e \in EventNames : Len(listeners[last.p][e]) = 2

IsPrefix(s, t) == Len(s) <= Len(t) /\ \A i \in 1..Len(s) : s[i] = t[i]

Declared(method) == Len(metadata.methods[method].params)

\* C5: a callable last argument is taken off the positional list and is
\* the callback of the call, whatever the declared parameter count and
\* the number of arguments; otherwise the callback is null and no
\* argument is taken off.
C5_TrailingCallback ==
  (last.op = "stub" /\ last.threw = "") =>
    LET a == last.args
        c == last.sent[1]
    IN IF Len(a) > 0 /\ a[Len(a)].t = "function"
         THEN /\ c.callback = a[Len(a)]
              /\ IsPrefix(c.params, SubSeq(a, 1, Len(a) - 1))
         ELSE /\ c.callback = [t |-> "null", v |-> "null"]
              /\ IsPrefix(c.params, a)
              /\ Len(a) <= Declared(last.method) => c.params = a

\* a callback after more arguments than the method declares
C5_Witness ==
  /\ last.op = "stub"
  /\ last.threw = ""
  /\ Len(last.args) = 3
  /\ last.args[3].t = "function"
  /\ Declared(last.method) = 1
  /\ last.sent[1].callback = last.args[3]

\* C6: the params sent are the first min(n, k) of the k positional
\* arguments left after the callback is taken off, in their order, for a
\* method of n declared parameters: never more, never padded.
C6_ParamsTruncated ==
  (last.op = "stub" /\ last.threw = "") =>
    LET a == last.args
        k == IF Len(a) > 0 /\ a[Len(a)].t = "function" THEN Len(a) - 1 ELSE Len(a)
        n == Declared(last.method)
        c == last.sent[1]
    IN /\ Len(c.params) = Min(n, k)
       /\ \A i \in 1..Len(c.params) : c.params[i] = a[i]

\* three data arguments to a method of two parameters
C6_Witness ==
  /\ last.op = "stub"
  /\ last.threw = ""
  /\ Len(last.args) = 3
  /\ last.args[3].t # "function"
  /\ Declared(last.method) = 2
  /\ Len(last.sent[1].params) = 2

\* C7: a stub's call carries the default transport selected on the
\* instance at that moment: http until a switch, then the one of the most
\* recent switch; a switch hands nothing to the tunnel and returns the
\* instance.
C7_StubUsesSelectedTransport ==
  /\ (last.op = "stub" /\ last.threw = "") =>
       /\ Len(last.sent) = 1
       /\ last.sent[1].transport = Selected(last.this)
  /\ last.op \in {"useHTTP", "useWS"} =>
       /\ last.ret = last.p
       /\ last.sent = <<>>
       /\ defaultTransport[last.p] = (IF last.op = "useWS" THEN "ws" ELSE "http")

\* a stub invoked after a switch to the socket transport
C7_Witness ==
  /\ last.op = "stub"
  /\ last.threw = ""
  /\ switched[last.this] = "ws"
  /\ last.sent[1].transport = "ws"

C9_ConstructorTunnel ==
  /\ last.op = "new" =>
       IF last.url.t # "string" \/ last.url.v = ""
         THEN /\ last.threw # ""
              /\ status[last.p] = "failed"
              /\ rpc[last.p].created = 0
              /\ rpc[last.p].handlers = 0
         ELSE /\ last.threw = ""
              /\ status[last.p] = "live"
              /\ rpc[last.p].url = last.url
              /\ rpc[last.p].sslSettings = last.sslSettings
  /\ \A p \in Instances :
       /\ status[p] = "live" => (rpc[p].created = 1 /\ rpc[p].handlers = 1)
       /\ status[p] # "live" => (rpc[p].created = 0 /\ rpc[p].handlers = 0)

\* a constructor call with a number as url
C9_Witness ==
  /\ last.op = "new"
  /\ last.url.t = "number"
  /\ last.threw = "Invalid proxy URL"
  /\ rpc[last.p].created = 0

\* C10: a function taken from a namespace container of an instance, of
\* any depth, and invoked on any receiver dispatches on that instance's
\* tunnel with that instance's default transport.
C10_NamespacedBound ==
  (last.op = "stub" /\ Len(last.method) > 1) =>
    /\ last.threw = ""
    /\ last.this = last.p
    /\ Len(last.sent) = 1
    /\ last.sent[1].method = last.method
    /\ last.sent[1].transport = defaultTransport[last.p]

\* a function two containers deep invoked on another live instance that
\* has another default transport
C10_Witness ==
  /\ last.op = "stub"
  /\ Len(last.method) = 3
  /\ last.recv \in Instances \ {last.p}
  /\ status[last.recv] = "live"
  /\ defaultTransport[last.recv] # defaultTransport[last.p]
  /\ last.this = last.p

\* C11: a notification {name, data} from the tunnel is re-emitted under
\* name: every listener registered for name at that moment runs once per
\* registration, in order, with data as its only argument, and nothing
\* else runs.
C11_NotificationReemitted ==
  last.op = "event" =>
    LET ls == listeners[last.p][last.name] IN
      /\ Len(last.invoked) = Len(ls)
      /\ \A i \in 1..Len(ls) :
           /\ last.invoked[i].fn = [t |-> "function", v |-> ls[i]]
           /\ last.invoked[i].args = <<last.data>>

\* a notification with a payload for a name with one listener, while the
\* other name has another listener
C11_Witness ==
  /\ last.op = "event"
  /\ last.data.t = "string"
  /\ Len(last.invoked) = 1
  /\ \E e \in EventNames \ {last.name} :
       /\ Len(listeners[last.p][e]) = 1
       /\ listeners[last.p][e][1] # last.invoked[1].fn.v

\* C12: the call of a stub has expectReturn true exactly when the
\* method's metadata declares a return type or the async marker.
C12_ExpectReturn ==
  (last.op = "stub" /\ last.threw = "") =>
    \A i \in 1..Len(last.sent) :
      (last.sent[i].expectReturn = "true")
        = (metadata.methods[last.method].returns # ""
             \/ metadata.methods[last.method].async)

\* a call of a method that is async and declares no return type
C12_Witness ==
  /\ last.op = "stub"
  /\ last.threw = ""
  /\ metadata.methods[last.method].returns = ""
  /\ metadata.methods[last.method].async
  /\ last.sent[1].expectReturn = "true"

\* C13: a failure of a call reaches only the callback of that call and
\* leaves the instance as it was (default transport, listeners, tunnel);
\* after any number of failures a stub still hands one well-formed call
\* to the tunnel.
C13_FailureLeavesInstanceUsable ==
  /\ [](/\ (last.op = "complete" /\ last.name = "failure") =>
             /\ last.sent = <<>>
             /\ last.threw = ""
             /\ Len(last.invoked) <= 1
             /\ \A i \in 1..Len(last.invoked) : last.invoked[i].fn = last.data
        /\ last.op = "stub" =>
             /\ last.threw = ""
             /\ Len(last.sent) = 1
             /\ last.sent[1].method = last.method
             /\ last.sent[1].transport = Selected(last.this)
             /\ last.sent[1].transport \in {"http", "ws"}
             /\ last.sent[1].expectReturn \in {"true", "false"})
  /\ [][(last'.op = "complete" /\ last'.name = "failure") =>
          /\ status' = status
          /\ defaultTransport' = defaultTransport
          /\ listeners' = listeners
          /\ ns' = ns
          /\ rpc' = rpc]_vars

\* a stub invoked after two calls failed, with a listener registered
C13_Witness ==
  /\ last.op = "stub"
  /\ traffic[last.this].failures = 2
  /\ Len(last.sent) = 1
  /\ Len(listeners[last.this]["e1"]) = 1

\* C14: every stub invocation hands exactly one call to the tunnel before
\* it returns, so the calls the tunnel was handed for one transport are in
\* the order of the invocations that produced them.
C14_DispatchOrder ==
  /\ (last.op = "stub" /\ last.threw = "") => Len(last.sent) = 1
  /\ \A p \in Instances :
       LET calls == traffic[p].calls IN
         /\ \A k \in 1..traffic[p].invocations :
              Cardinality({ i \in 1..Len(calls) : calls[i].id = k }) = 1
         /\ \A i, j \in 1..Len(calls) :
              (i < j /\ calls[i].call.transport = calls[j].call.transport)
                => calls[i].id < calls[j].id

\* three invocations, the second over another transport than the first
\* and the third
C14_Witness ==
  \E p \in Instances :
    /\ Len(traffic[p].calls) = 3
    /\ traffic[p].calls[1].call.transport = "ws"
    /\ traffic[p].calls[2].call.transport = "http"
    /\ traffic[p].calls[3].call.transport = "ws"
    /\ traffic[p].calls[3].id = 3


\* C15: a request for a language no template exists for ends in one
\* reject, with renderFile never called and no text delivered; every
\* request has at most one call of resolve or reject, resolve with the
\* whole rendered text and reject with none.
C15_UnsupportedLanguageRejected ==
  \A r \in Requests :
    LET q == reqs[r] IN
      /\ (q.pc # "idle" /\ q.language \notin Templates)
           => /\ ~q.rendered
              /\ q.resolves = 0
              /\ q.output = <<>>
              /\ q.pc = "settled" => q.rejects = 1
      /\ q.resolves + q.rejects <= 1
      /\ q.resolves = 1 => q.output = Render(q.data)
      /\ q.rejects = 1 => q.output = <<>>
      /\ q.pc = "settled" <=> q.resolves + q.rejects = 1

\* a request for an unsupported language rejected, another resolved
C15_Witness ==
  /\ reqs["r1"].pc = "settled"
  /\ reqs["r1"].language = "Cobol"
  /\ reqs["r1"].rejects = 1
  /\ reqs["r2"].resolves = 1
  /\ Len(reqs["r2"].output) = 3


\* C16: for every (label, value) pair of the enum the accessor was
\* generated for, the accessor maps label to value and value to label,
\* has the value as its property label, and is frozen.
C16_EnumCodec ==
  accessor.generated =>
    /\ accessor.frozen
    /\ \A i \in 1..Len(accessor.struct) :
         LET label == accessor.struct[i].key
             value == accessor.struct[i].value
         IN  /\ Switch(accessor.cases, Str(label)) = value
             /\ Switch(accessor.cases, value) = Str(label)
             /\ Get(accessor, label) = value

\* C16, the part the code keeps: the two directions of the switch, the
\* freeze, and the property of every label a function has no property of
\* its own for.
C16_EnumCodecOrdinaryLabels ==
  /\ accessor.generated =>
       /\ accessor.frozen
       /\ \A i \in 1..Len(accessor.struct) :
            LET label == accessor.struct[i].key
                value == accessor.struct[i].value
            IN  /\ Switch(accessor.cases, Str(label)) = value
                /\ Switch(accessor.cases, value) = Str(label)
                /\ label \notin NonWritable => Get(accessor, label) = value
  /\ last.op = "assign" => Get(accessor, last.name) # last.data
                             \/ \E i \in 1..Len(accessor.struct) :
                                  /\ accessor.struct[i].key = last.name
                                  /\ accessor.struct[i].value = last.data

\* an accessor generated for an enum with label "name", after an
\* assignment by a caller
C16_Witness ==
  /\ accessor.generated
  /\ Len(accessor.struct) = 2
  /\ accessor.struct[1].key = "name"
  /\ last.op = "assign"
  /\ last.name = "A"


\* the indices at which a container is emitted
EmittedAt(path) == { i \in 1..Len(emitted.out) : emitted.out[i] = path }

\* the namespace paths the names imply: every proper, non-empty prefix
ImpliedPaths(names) ==
  UNION { { SubSeq(names[i], 1, k) : k \in 1..(Len(names[i]) - 1) } :
          i \in 1..Len(names) }

TextAtCall(q) ==
  Render([metadata |-> q.calledAt,
          localName |-> IF Falsy(q.localName) THEN "Proxy" ELSE q.localName.v])

\* C19: two requests with the same service metadata at their calls, the
\* same language and the same local name deliver the same text, and the
\* text of a request is the text of its inputs as they were at the call.
C19_OutputOfInputsAtCall ==
  /\ \A r1, r2 \in Requests :
       (/\ reqs[r1].resolves = 1 /\ reqs[r2].resolves = 1
        /\ reqs[r1].language = reqs[r2].language
        /\ reqs[r1].localName = reqs[r2].localName
        /\ reqs[r1].calledAt = reqs[r2].calledAt)
         => reqs[r1].output = reqs[r2].output
  /\ \A r \in Requests :
       reqs[r].resolves = 1 => reqs[r].output = TextAtCall(reqs[r])

\* C19, the part the code keeps: the text is the text of the metadata the
\* service had when fs.stat called back, so a request whose service was
\* not touched between its call and that callback delivers the text of
\* its inputs at the call.
C19_OutputOfMetadataAtStat ==
  \A r \in Requests :
    reqs[r].resolves = 1 =>
      /\ reqs[r].output = Render(reqs[r].data)
      /\ reqs[r].data.metadata = reqs[r].calledAt
           => reqs[r].output = TextAtCall(reqs[r])

\* two requests made with the same inputs, both resolved, the service
\* touched while they were in flight
C19_Witness ==
  /\ reqs["r1"].resolves = 1 /\ reqs["r2"].resolves = 1
  /\ reqs["r1"].language = reqs["r2"].language
  /\ reqs["r1"].localName = reqs["r2"].localName
  /\ reqs["r1"].calledAt = reqs["r2"].calledAt
  /\ reqs["r1"].data.metadata = reqs["r1"].calledAt
  /\ reqs["r2"].data.metadata # reqs["r2"].calledAt


\* the positions, in the tunnel's record of instance p, of the control
\* calls for event name type
ControlsFor(p, type) ==
  { i \in 1..Len(traffic[p].calls) :
      /\ traffic[p].calls[i].call.params = <<Str(type)>>
      /\ traffic[p].calls[i].call.method \in {<<"rpc", "on">>, <<"rpc", "off">>} }

Latest(positions) == CHOOSE i \in positions : \A j \in positions : j <= i

\* C20: for every event name, if the name has a local listener the most
\* recent control call for it is rpc.on; if it has none, the most recent
\* control call for it, if there is one, is rpc.off; and no two rpc.on for
\* one name follow each other without an rpc.off for it between them.
C20_SubscriptionConsistent ==
  \A p \in Instances, type \in EventNames :
    LET calls == traffic[p].calls
        cs == ControlsFor(p, type)
    IN  /\ Len(listeners[p][type]) > 0 =>
             /\ cs # {}
             /\ calls[Latest(cs)].call.method = <<"rpc", "on">>
        /\ (Len(listeners[p][type]) = 0 /\ cs # {}) =>
             calls[Latest(cs)].call.method = <<"rpc", "off">>
        /\ \A i, j \in cs :
             (/\ i < j
              /\ calls[i].call.method = <<"rpc", "on">>
              /\ calls[j].call.method = <<"rpc", "on">>)
               => \E k \in cs : i < k /\ k < j
                                /\ calls[k].call.method = <<"rpc", "off">>

\* subscribed, unsubscribed and subscribed again, with two listeners now
C20_Witness ==
  /\ Len(listeners["p1"]["e1"]) = 2
  /\ Len(traffic["p1"].calls) = 3
  /\ ControlsFor("p1", "e1") = {1, 2, 3}
  /\ traffic["p1"].calls[2].call.method = <<"rpc", "off">>
  /\ last.op = "on"
  /\ last.sent = <<>>


\* C21: an operation on one instance (a transport switch, a listener
\* added or removed, a root or namespaced method call, close, a
\* notification) leaves the default transport, the listeners and the
\* tunnel of every other instance as they were, and a namespaced method
\* reached through an instance dispatches on the tunnel of that instance.
C21_InstanceIsolation ==
  /\ [](last.op = "stub" => (/\ last.threw = ""
                             /\ last.this = last.p
                             /\ Len(last.sent) = 1))
  /\ [][\A q \in Instances :
          q # last'.p =>
            /\ defaultTransport'[q] = defaultTransport[q]
            /\ listeners'[q] = listeners[q]
            /\ rpc'[q] = rpc[q]
            /\ ns'[q] = ns[q]]_vars

\* a namespaced method called through p2 while p1 is on another
\* transport, has a listener and was closed
C21_Witness ==
  /\ last.op = "stub"
  /\ last.p = "p2"
  /\ last.method = <<"a", "b", "m">>
  /\ status["p1"] = "live"
  /\ defaultTransport["p1"] = "ws"
  /\ defaultTransport["p2"] = "http"
  /\ Len(listeners["p1"]["e1"]) = 1
  /\ Len(listeners["p2"]["e1"]) = 0
  /\ last.this = "p2"
  /\ last.sent[1].transport = "http"
  /\ rpc["p1"].url # rpc["p2"].url
  /\ rpc["p1"].closeCalls = 1
  /\ rpc["p2"].closeCalls = 0


=============================================================================
